---- MODULE Spec2Model ----
(***************************************************************************)
(* A model of src/shell.py: the Shell pipeline builder (_add_args, pipe,   *)
(* run, input), the executor (_inject, _multiple_communicate) and the      *)
(* result accessors.                                                       *)
(*                                                                         *)
(* Python's Optional values are sequences of length at most one: None is   *)
(* <<>> and a value x is <<x>>.  A text is a sequence of characters.       *)
(* The subprocess constants PIPE and STDOUT and the members of StdinType   *)
(* are strings of the same names.                                          *)
(***************************************************************************)
EXTENDS Integers, Sequences, FiniteSets, TLC

\* Longest pending stage list the builder is driven to.
MaxStages == 2

None == <<>>
Some(x) == <<x>>

NL == "\n"

\* Commands handed to pipe()/run(): one the OS can start, one it cannot
\* (Popen raises FileNotFoundError).
Commands == {"cmd", "missing"}

\* Payloads handed to input().
Data == {"d1", "d2"}

\* Texts a last stage may write to the stream that is captured.
Texts == {<<>>, <<"x">>, <<"x", NL>>, <<"x", NL, NL>>}

\* Exit statuses of a child: 0, a failure, death by a signal (SIGKILL).
Statuses == {0, 1, -9}

\* What can be raised where the executor blocks on a stream; a
\* KeyboardInterrupt can arrive at each of these places.
WriteFaults == {"WriteError", "KeyboardInterrupt"}
ReadFaults == {"ReadError", "KeyboardInterrupt"}
BlockFaults == {"CallerError", "KeyboardInterrupt"}

StdinType == {"NOINPUT", "STDOUT", "STDERR", "PIPE"}

\* The calls that run execute() and hand back a result.  "accessor" stands for
\* a read of any of the properties return_code, stdout, stderr, output and of
\* bool(shell) / succeeded / failed: each of them is execute() followed by a
\* read of the fields, and retval holds what each of them returns.
Accessors == {"accessor"}

VARIABLES
    return_code,  \* Shell._return_code
    stdout,       \* Shell._stdout (Optional text)
    stderr,       \* Shell._stderr (Optional text)
    input,        \* Shell._input (Optional payload)
    args,         \* Shell._args: the pending stages (PopenArgs)
    processes,    \* _inject's local list of Popen objects of the latest call
    pc,           \* where the call in progress stands; "idle" between calls
    call,         \* the public operation called last, with its arguments
    exc,          \* the exception the latest call raised or is unwinding, or "none"
    retval        \* what the latest accessor call returned (Optional)

vars == <<return_code, stdout, stderr, input, args, processes, pc, call, exc, retval>>

----------------------------------------------------------------------------
\* Values

Truthy(t) == t # None /\ t[1] # <<>>

\* OrZero as it would be if a negative status were taken for 0 as well.
OrZeroClamp(poll) == IF poll = None \/ poll[1] <= 0 THEN 0 ELSE poll[1]
\* x or 0, for x = process.poll(): None and 0 are falsy.
OrZero(poll) == IF poll = None \/ poll[1] = 0 THEN 0 ELSE poll[1]

EndsWithNewline(t) == Len(t) > 0 /\ t[Len(t)] = NL

\* if self._stdout and self._stdout.endswith("\n"): self._stdout = self._stdout[:-1]
StripNewline(o) ==
    IF Truthy(o) /\ EndsWithNewline(o[1])
    THEN Some(SubSeq(o[1], 1, Len(o[1]) - 1))
    ELSE o

\* BoolOf as it would be if death by a signal counted as success.
BoolOfNonNegative(rc) == rc >= 0
\* Shell.__bool__
BoolOf(rc) == rc = 0

\* Shell.output: self.stdout or self.stderr or ""
OutputOf(so, se) == IF Truthy(so) THEN so[1] ELSE IF Truthy(se) THEN se[1] ELSE <<>>

NoValue == None

\* The values the accessors return once execute() has returned.
ResultOf(op, rc, so, se) ==
    IF op \in Accessors
    THEN Some([return_code |-> rc,
               stdout      |-> so,
               stderr      |-> se,
               output      |-> OutputOf(so, se),
               bool        |-> BoolOf(rc)])
    ELSE NoValue

\* The call in progress.  close_stdin is the option of an inject scope; every
\* other call, and inject() as src/shell.py has it, closes the first stage's
\* stdin after the input is written.
MkCall(op, sas, data) ==
    [op |-> op, stderr_as_stdin |-> sas, data |-> data, close_stdin |-> TRUE]

\* inject(close_stdin = ...)
MkInject(close_stdin) == [MkCall("inject", FALSE, None) EXCEPT !.close_stdin = close_stdin]

----------------------------------------------------------------------------
\* The builder: _add_args

\* ResolveStdin as it would be if a request for the previous stderr were never
\* answered with the previous stdout.
ResolveStdinStrict(a, inp, stderr_as_stdin) ==
    IF Len(a) > 0
    THEN IF a[Len(a)].stderr \in {"PIPE", "None"} /\ stderr_as_stdin
         THEN "STDERR"
         ELSE IF ~stderr_as_stdin /\ (a[Len(a)].stderr = "STDOUT" \/ a[Len(a)].stdout = "PIPE")
              THEN "STDOUT"
              ELSE "NOINPUT"
    ELSE IF inp # None THEN "PIPE" ELSE "NOINPUT"
\* The stdin type _add_args resolves for a new stage, given the pending list
\* and the pending input.
ResolveStdin(a, inp, stderr_as_stdin) ==
    IF Len(a) > 0
    THEN IF a[Len(a)].stderr \in {"PIPE", "None"} /\ stderr_as_stdin
         THEN "STDERR"
         ELSE IF a[Len(a)].stderr = "STDOUT" \/ a[Len(a)].stdout = "PIPE"
              THEN "STDOUT"
              ELSE "NOINPUT"
    ELSE IF inp # None THEN "PIPE" ELSE "NOINPUT"

\* self._args[-1].kwargs["stderr"] = subprocess.PIPE, when stderr is taken as stdin
RouteStderr(a, stderr_as_stdin) ==
    IF Len(a) > 0 /\ a[Len(a)].stderr \in {"PIPE", "None"} /\ stderr_as_stdin
    THEN [a EXCEPT ![Len(a)].stderr = "PIPE"]
    ELSE a

\* AddArgs as it would be if the new stage did not carry the pending input.
AddArgsNoInput(a, inp, command, stderr_to_stdout, stderr_as_stdin, fallback_stdout, fallback_stderr) ==
    Append(RouteStderr(a, stderr_as_stdin),
           [command |-> command,
            stdin   |-> ResolveStdin(a, inp, stderr_as_stdin),
            stdout  |-> fallback_stdout,
            stderr  |-> IF stderr_to_stdout THEN "STDOUT" ELSE fallback_stderr,
            input   |-> None])
\* The pending list after _add_args.
AddArgs(a, inp, command, stderr_to_stdout, stderr_as_stdin, fallback_stdout, fallback_stderr) ==
    Append(RouteStderr(a, stderr_as_stdin),
           [command |-> command,
            stdin   |-> ResolveStdin(a, inp, stderr_as_stdin),
            stdout  |-> fallback_stdout,
            stderr  |-> IF stderr_to_stdout THEN "STDOUT" ELSE fallback_stderr,
            input   |-> inp])

----------------------------------------------------------------------------
\* The executor's view of a child process

\* kwargs["stdin"] of stage i as _inject sets it before Popen: PIPE for a
\* first stage fed from input(), the previous process's stdout / stderr
\* object (None when that stream is not a pipe) for a later stage, and
\* otherwise the None _add_args put there.  The value stays in the stage's
\* kwargs, where the next _inject overwrites it in the same way before it is
\* read again, so a stage does not carry it here.
SpawnStdin(a, procs, i) ==
    IF i = 1
    THEN IF a[1].stdin = "PIPE" THEN "PIPE" ELSE "None"
    ELSE IF a[i].stdin = "STDOUT"
         THEN IF procs[i - 1].stdout # "none" THEN "prev_stdout" ELSE "None"
         ELSE IF a[i].stdin = "STDERR"
              THEN IF procs[i - 1].stderr # "none" THEN "prev_stderr" ELSE "None"
              ELSE "None"

\* Popen(*args, **kwargs): the handles the parent keeps are the pipe ends.
Popen(stage, kwstdin) ==
    [stdin      |-> IF kwstdin = "PIPE" THEN "open" ELSE "none",
     stdout     |-> IF stage.stdout = "PIPE" THEN "open" ELSE "none",
     stderr     |-> IF stage.stderr = "PIPE" THEN "open" ELSE "none",
     source     |-> kwstdin,
     got        |-> None,
     waited     |-> FALSE,
     killed     |-> FALSE,
     returncode |-> None]

Close(h) == IF h = "open" THEN "closed" ELSE h

Wait(p, status) ==
    [p EXCEPT !.waited = TRUE,
              !.returncode = IF p.returncode = None THEN Some(status) ELSE p.returncode]

Kill(p) == [p EXCEPT !.killed = TRUE]

\* Popen.__exit__, run by the ExitStack for every process entered: close the
\* three streams, then wait.  While a KeyboardInterrupt unwinds, the wait is
\* a short timed one: reaped gives the status if the child exited within it
\* and is None if it did not.
PopenExit(p, exc_type, reaped) ==
    LET closed == [p EXCEPT !.stdin = Close(p.stdin), !.stdout = Close(p.stdout),
                            !.stderr = Close(p.stderr)]
    IN IF exc_type = "KeyboardInterrupt" /\ reaped = None
       THEN closed
       ELSE Wait(closed, reaped[1])

\* The outcomes of the waits of an unwinding: one per process, None only for
\* a timed wait.
ExitOutcomes(procs, exc_type) ==
    [1..Len(procs) ->
        {Some(st) : st \in Statuses} \cup (IF exc_type = "KeyboardInterrupt" THEN {None} ELSE {})]

\* Clear as it would be if the pending list were left as it is.
ClearKeep(a) == a
\* self._args.clear()
Clear(a) == <<>>

----------------------------------------------------------------------------
Init ==
    /\ return_code = 0
    /\ stdout = None
    /\ stderr = None
    /\ input = None
    /\ args = <<>>
    /\ processes = <<>>
    /\ pc = "idle"
    /\ call = MkCall("new", FALSE, None)
    /\ exc = "none"
    /\ retval = NoValue

\* Input as it would be without the check for pending stages.
InputUnchecked(data) ==
    /\ pc = "idle"
    /\ call' = MkCall("input", FALSE, Some(data))
    /\ exc' = "none"
    /\ input' = Some(data)
    /\ processes' = <<>>
    /\ retval' = NoValue
    /\ UNCHANGED <<return_code, stdout, stderr, args, pc>>
\* Shell.input
Input(data) ==
    /\ pc = "idle"
    /\ call' = MkCall("input", FALSE, Some(data))
    /\ IF Len(args) > 0
       THEN exc' = "AssertionError" /\ input' = input
       ELSE exc' = "none" /\ input' = Some(data)
    /\ processes' = <<>>
    /\ retval' = NoValue
    /\ UNCHANGED <<return_code, stdout, stderr, args, pc>>

\* Shell.pipe
Pipe(command, stderr_to_stdout, stderr_as_stdin) ==
    /\ pc = "idle"
    /\ Len(args) < MaxStages
    /\ call' = MkCall("pipe", stderr_as_stdin, None)
    /\ args' = AddArgs(args, input, command, stderr_to_stdout, stderr_as_stdin, "PIPE", "PIPE")
    /\ input' = None
    /\ exc' = "none"
    /\ processes' = <<>>
    /\ retval' = NoValue
    /\ UNCHANGED <<return_code, stdout, stderr, pc>>

\* Shell.run: _add_args, then execute() on a list that is never empty
Run(command, stderr_to_stdout) ==
    /\ pc = "idle"
    /\ Len(args) < MaxStages
    /\ call' = MkCall("run", FALSE, None)
    /\ args' = AddArgs(args, input, command, stderr_to_stdout, FALSE, "None", "None")
    /\ input' = None
    /\ exc' = "none"
    /\ processes' = <<>>
    /\ retval' = NoValue
    /\ pc' = "spawn"
    /\ UNCHANGED <<return_code, stdout, stderr>>

\* Shell.execute, and the accessors that start with it
Execute(op) ==
    /\ pc = "idle"
    /\ call' = MkCall(op, FALSE, None)
    /\ exc' = "none"
    /\ processes' = <<>>
    /\ IF Len(args) < 1
       THEN /\ pc' = "idle"
            /\ retval' = ResultOf(op, return_code, stdout, stderr)
       ELSE /\ pc' = "spawn"
            /\ retval' = NoValue
    /\ UNCHANGED <<return_code, stdout, stderr, input, args>>

\* Shell.inject: entering the scope
Inject ==
    /\ pc = "idle"
    /\ call' = MkCall("inject", FALSE, None)
    /\ processes' = <<>>
    /\ retval' = NoValue
    /\ IF Len(args) < 1
       THEN exc' = "AssertionError" /\ pc' = "idle"
       ELSE exc' = "none" /\ pc' = "spawn"
    /\ UNCHANGED <<return_code, stdout, stderr, input, args>>

\* inject(close_stdin=False): entering the scope with the first stage's stdin
\* to be left open at hand-off
InjectOpen ==
    /\ pc = "idle"
    /\ call' = MkInject(FALSE)
    /\ processes' = <<>>
    /\ retval' = NoValue
    /\ IF Len(args) < 1
       THEN exc' = "AssertionError" /\ pc' = "idle"
       ELSE exc' = "none" /\ pc' = "spawn"
    /\ UNCHANGED <<return_code, stdout, stderr, input, args>>

\* _inject: Popen of the next stage succeeds
Spawn ==
    /\ pc = "spawn"
    /\ LET i  == Len(processes) + 1
           kw == SpawnStdin(args, processes, i)
       IN /\ args[i].command # "missing"
          /\ processes' = Append(processes, Popen(args[i], kw))
          /\ pc' = IF i = Len(args) THEN "write" ELSE "spawn"
    /\ UNCHANGED <<return_code, stdout, stderr, input, args, call, exc, retval>>

\* _inject: Popen of the next stage raises
SpawnFail ==
    /\ pc = "spawn"
    /\ args[Len(processes) + 1].command = "missing"
    /\ exc' = "SpawnError"
    /\ pc' = "exit"
    /\ UNCHANGED <<return_code, stdout, stderr, input, args, processes, call, retval>>

\* WriteInput as it would be if the first stage's stdin were left open after
\* the write.
WriteInputKeepOpen ==
    /\ pc = "write"
    /\ call.close_stdin
    /\ processes' =
          IF processes[1].stdin # "none"
          THEN [processes EXCEPT ![1].got = args[1].input]
          ELSE processes
    /\ args' = Clear(args)
    /\ pc' = "yield"
    /\ UNCHANGED <<return_code, stdout, stderr, input, call, exc, retval>>
\* _inject: the input is written to the first stage and its stdin closed,
\* then the pending list is cleared and the last process is yielded
WriteInput ==
    /\ pc = "write"
    /\ call.close_stdin
    /\ processes' =
          IF processes[1].stdin # "none"
          THEN [processes EXCEPT ![1].stdin = "closed", ![1].got = args[1].input]
          ELSE processes
    /\ args' = Clear(args)
    /\ pc' = "yield"
    /\ UNCHANGED <<return_code, stdout, stderr, input, call, exc, retval>>

\* The hand-off of inject(close_stdin=False): the input is written to the
\* first stage and its stdin is left open for the caller
HandOffOpen ==
    /\ pc = "write"
    /\ ~call.close_stdin
    /\ processes' =
          IF processes[1].stdin # "none"
          THEN [processes EXCEPT ![1].got = args[1].input]
          ELSE processes
    /\ args' = Clear(args)
    /\ pc' = "yield"
    /\ UNCHANGED <<return_code, stdout, stderr, input, call, exc, retval>>

\* _inject: writing the input raises
WriteFail(e) ==
    /\ pc = "write"
    /\ processes[1].stdin # "none"
    /\ exc' = e
    /\ pc' = "exit"
    /\ UNCHANGED <<return_code, stdout, stderr, input, args, processes, call, retval>>

\* The consumer of the generator goes on: execute()'s loop body, or the
\* caller's block of an inject scope ending normally
Resume ==
    /\ pc = "yield"
    /\ pc' = "drain"
    /\ UNCHANGED <<return_code, stdout, stderr, input, args, processes, call, exc, retval>>

\* The caller's block of an inject scope raises: the exception is thrown
\* into the generator at the yield
BlockRaise(e) ==
    /\ pc = "yield"
    /\ call.op = "inject"
    /\ exc' = e
    /\ pc' = "exit"
    /\ UNCHANGED <<return_code, stdout, stderr, input, args, processes, call, retval>>

\* _multiple_communicate without an exception
Communicate(text, status) ==
    /\ pc = "drain"
    /\ LET n    == Len(processes)
           last == processes[n]
       IN /\ IF last.stdout # "none"
             THEN /\ stdout' = Some(text)
                  /\ stderr' = stderr
                  /\ processes' = [processes EXCEPT ![n] = Wait([last EXCEPT !.stdout = "closed"], status)]
             ELSE IF last.stderr # "none"
                  THEN /\ stderr' = Some(text)
                       /\ stdout' = stdout
                       /\ processes' = [processes EXCEPT ![n] = Wait([last EXCEPT !.stderr = "closed"], status)]
                  ELSE /\ text = <<>>
                       /\ UNCHANGED <<stdout, stderr>>
                       /\ processes' = [processes EXCEPT ![n] = Wait(last, status)]
          /\ return_code' = OrZero(processes'[n].returncode)
    /\ pc' = "exit"
    /\ UNCHANGED <<input, args, call, exc, retval>>

\* _multiple_communicate: read() raises; every process is killed
CommunicateReadFail(e) ==
    /\ pc = "drain"
    /\ processes[Len(processes)].stdout # "none" \/ processes[Len(processes)].stderr # "none"
    /\ processes' = [i \in 1..Len(processes) |-> Kill(processes[i])]
    /\ exc' = e
    /\ pc' = "exit"
    /\ UNCHANGED <<return_code, stdout, stderr, input, args, call, retval>>

\* _multiple_communicate: wait() is interrupted after the read; every
\* process is killed
CommunicateWaitFail(text) ==
    /\ pc = "drain"
    /\ LET n    == Len(processes)
           last == processes[n]
       IN IF last.stdout # "none"
          THEN /\ stdout' = Some(text)
               /\ stderr' = stderr
               /\ processes' = [i \in 1..n |->
                      Kill(IF i = n THEN [last EXCEPT !.stdout = "closed"] ELSE processes[i])]
          ELSE IF last.stderr # "none"
               THEN /\ stderr' = Some(text)
                    /\ stdout' = stdout
                    /\ processes' = [i \in 1..n |->
                           Kill(IF i = n THEN [last EXCEPT !.stderr = "closed"] ELSE processes[i])]
               ELSE /\ text = <<>>
                    /\ UNCHANGED <<stdout, stderr>>
                    /\ processes' = [i \in 1..n |-> Kill(processes[i])]
    /\ exc' = "KeyboardInterrupt"
    /\ pc' = "exit"
    /\ UNCHANGED <<return_code, input, args, call, retval>>

\* The ExitStack unwinds: Popen.__exit__ of every process entered.  Without
\* an exception the trailing newline is stripped and the call returns;
\* with one, the exception reaches the caller.
ExitStack(reaped) ==
    /\ pc = "exit"
    /\ processes' = [i \in 1..Len(processes) |-> PopenExit(processes[i], exc, reaped[i])]
    /\ IF exc = "none"
       THEN /\ stdout' = StripNewline(stdout)
            /\ retval' = ResultOf(call.op, return_code, stdout', stderr)
       ELSE UNCHANGED <<stdout, retval>>
    /\ pc' = "idle"
    /\ UNCHANGED <<return_code, stderr, input, args, call, exc>>

Unwind == \E reaped \in ExitOutcomes(processes, exc) : ExitStack(reaped)

Next ==
    \/ \E d \in Data : Input(d)
    \/ \E c \in Commands, s2o \in BOOLEAN, sas \in BOOLEAN : Pipe(c, s2o, sas)
    \/ \E c \in Commands, s2o \in BOOLEAN : Run(c, s2o)
    \/ \E op \in Accessors \cup {"execute"} : Execute(op)
    \/ Inject
    \/ InjectOpen
    \/ Spawn
    \/ SpawnFail
    \/ WriteInput
    \/ HandOffOpen
    \/ \E e \in WriteFaults : WriteFail(e)
    \/ Resume
    \/ \E e \in BlockFaults : BlockRaise(e)
    \/ \E t \in Texts, s \in Statuses : Communicate(t, s)
    \/ \E e \in ReadFaults : CommunicateReadFail(e)
    \/ \E t \in Texts : CommunicateWaitFail(t)
    \/ Unwind

Spec == Init /\ [][Next]_vars

----------------------------------------------------------------------------
\* One run of execute() at the grain of the reads and writes on the OS pipes.
\* A pipe holds at most PipeCap units; a write to a full pipe and a read of an
\* empty pipe whose writer lives block.  The variables are those of Spec; a
\* process record carries, besides the fields of Popen, what the OS knows
\* of the child.

\* Units a pipe buffers.
PipeCap == 1
\* Longest input() payload, in units.
MaxInput == 2
\* Most units a stage writes to its stdout, and to its stderr, of its own.
MaxOut == 2

Units(n) == [k \in 1..n |-> "u"]

\* The input pending when the first stage is added: none, or a payload.
Payloads == {None} \cup {Some(Units(n)) : n \in 1..MaxInput}

\* The pending lists pipe() builds from an empty list, by length.
RECURSIVE PipeLists(_)
PipeLists(n) ==
    IF n = 0
    THEN {<<>>}
    ELSE IF n = 1
         THEN {AddArgs(<<>>, inp, "cmd", s2o, FALSE, "PIPE", "PIPE") :
                  inp \in Payloads, s2o \in BOOLEAN}
         ELSE {AddArgs(a, None, "cmd", s2o, sas, "PIPE", "PIPE") :
                  a \in PipeLists(n - 1), s2o \in BOOLEAN, sas \in BOOLEAN}

\* The pending lists execute() finds: stages added by pipe(), and for a run
\* started by run() its stage after them.
PendingLists ==
    UNION {PipeLists(n) : n \in 1..MaxStages}
    \cup UNION {{AddArgs(a, inp, "cmd", s2o, FALSE, "None", "None") :
                    inp \in (IF a = <<>> THEN Payloads ELSE {None}), s2o \in BOOLEAN} :
                a \in UNION {PipeLists(n) : n \in 0..(MaxStages - 1)}}

\* What a stage does: it reads its stdin to end-of-input, writes wout units
\* to its stdout and werr units to its stderr, and exits once its stdin is at
\* end-of-input and its writes were accepted.  A stage with echo writes to
\* its stdout every unit it reads, before it reads the next.
Behaviours == [echo : BOOLEAN, wout : 0..MaxOut, werr : 0..MaxOut]

\* A child as the OS has it: the Popen object, the stage's program, the units
\* buffered in the pipes it reads its stdin from (inq, a first stage fed by
\* the parent) and writes to (outq, errq), its exit status once it exited,
\* and the units the parent wrote to it (wr) and read from it (rd).
PopenOS(stage, kwstdin, b) ==
    [stdin      |-> Popen(stage, kwstdin).stdin,
     stdout     |-> Popen(stage, kwstdin).stdout,
     stderr     |-> Popen(stage, kwstdin).stderr,
     source     |-> kwstdin,
     got        |-> None,
     waited     |-> FALSE,
     killed     |-> FALSE,
     returncode |-> None,
     merged     |-> stage.stderr = "STDOUT",
     echo       |-> b.echo,
     wout       |-> b.wout,
     werr       |-> b.werr,
     inq        |-> 0,
     outq       |-> 0,
     errq       |-> 0,
     status     |-> None,
     wr         |-> 0,
     rd         |-> 0]

Alive(p) == p.status = None

\* The units stage i can read from its stdin now
StdinUnits(procs, i) ==
    IF procs[i].source = "PIPE" THEN procs[i].inq
    ELSE IF procs[i].source = "prev_stdout" THEN procs[i - 1].outq
    ELSE IF procs[i].source = "prev_stderr" THEN procs[i - 1].errq
    ELSE 0

\* Stage i's stdin is at end-of-input: nothing is buffered and the writer
\* closed its end (the parent closed the handle, the previous stage exited);
\* a stage that was given no pipe is not fed
StdinAtEOF(procs, i) ==
    /\ StdinUnits(procs, i) = 0
    /\ procs[i].source = "PIPE" => procs[i].stdin = "closed"
    /\ procs[i].source \in {"prev_stdout", "prev_stderr"} => ~Alive(procs[i - 1])

\* The processes after stage i took one unit from its stdin
TakeStdin(procs, i) ==
    IF procs[i].source = "PIPE" THEN [procs EXCEPT ![i].inq = @ - 1]
    ELSE IF procs[i].source = "prev_stdout" THEN [procs EXCEPT ![i - 1].outq = @ - 1]
    ELSE [procs EXCEPT ![i - 1].errq = @ - 1]

PipeInit ==
    /\ return_code = 0
    /\ stdout = None
    /\ stderr = None
    /\ input = None
    /\ args \in PendingLists
    /\ processes = <<>>
    /\ pc = "spawn"
    /\ call = MkCall(IF args[Len(args)].stdout = "None" THEN "run" ELSE "execute", FALSE, None)
    /\ exc = "none"
    /\ retval = NoValue

\* _inject: Popen of the next stage; the child starts to run
SpawnChild(b) ==
    /\ pc = "spawn"
    /\ LET i  == Len(processes) + 1
           kw == SpawnStdin(args, processes, i)
       IN /\ processes' = Append(processes, PopenOS(args[i], kw, b))
          /\ pc' = IF i = Len(args) THEN "write" ELSE "spawn"
    /\ UNCHANGED <<return_code, stdout, stderr, input, args, call, exc, retval>>

\* _stdin_write: the next unit of the input goes into the first stage's
\* stdin pipe; blocks while the pipe is full
WriteUnit ==
    /\ pc = "write"
    /\ processes[1].stdin = "open"
    /\ processes[1].wr < Len(args[1].input[1])
    /\ processes[1].inq < PipeCap
    /\ processes' = [processes EXCEPT ![1].wr = @ + 1, ![1].inq = @ + 1]
    /\ UNCHANGED <<return_code, stdout, stderr, input, args, pc, call, exc, retval>>

\* _stdin_write: the input is written, stdin is closed; then the pending
\* list is cleared and execute() resumes the generator
CloseStdin ==
    /\ pc = "write"
    /\ IF processes[1].stdin = "open"
       THEN /\ processes[1].wr = Len(args[1].input[1])
            /\ processes' = [processes EXCEPT ![1].stdin = "closed", ![1].got = args[1].input]
       ELSE processes' = processes
    /\ args' = Clear(args)
    /\ pc' = "drain"
    /\ UNCHANGED <<return_code, stdout, stderr, input, call, exc, retval>>

\* The stream of the last process that _multiple_communicate reads
Captured(p) == IF p.stdout # "none" THEN "stdout" ELSE IF p.stderr # "none" THEN "stderr" ELSE "none"

\* read(): one more unit of the captured stream; blocks while the pipe is
\* empty and the last stage lives
ReadUnit ==
    /\ pc = "drain"
    /\ LET n == Len(processes)
       IN \/ /\ Captured(processes[n]) = "stdout"
             /\ processes[n].outq > 0
             /\ processes' = [processes EXCEPT ![n].outq = @ - 1, ![n].rd = @ + 1]
          \/ /\ Captured(processes[n]) = "stderr"
             /\ processes[n].errq > 0
             /\ processes' = [processes EXCEPT ![n].errq = @ - 1, ![n].rd = @ + 1]
    /\ UNCHANGED <<return_code, stdout, stderr, input, args, pc, call, exc, retval>>

\* read() returns at end-of-stream and the handle is closed; with nothing to
\* capture the read is skipped
ReadEOF ==
    /\ pc = "drain"
    /\ LET n    == Len(processes)
           last == processes[n]
       IN IF Captured(last) = "stdout"
          THEN /\ last.outq = 0 /\ ~Alive(last)
               /\ stdout' = Some(Units(last.rd))
               /\ stderr' = stderr
               /\ processes' = [processes EXCEPT ![n].stdout = "closed"]
          ELSE IF Captured(last) = "stderr"
               THEN /\ last.errq = 0 /\ ~Alive(last)
                    /\ stderr' = Some(Units(last.rd))
                    /\ stdout' = stdout
                    /\ processes' = [processes EXCEPT ![n].stderr = "closed"]
               ELSE UNCHANGED <<stdout, stderr, processes>>
    /\ pc' = "wait"
    /\ UNCHANGED <<return_code, input, args, call, exc, retval>>

\* processes[-1].wait() returns once the last stage has exited
WaitLast ==
    /\ pc = "wait"
    /\ LET n == Len(processes)
       IN /\ ~Alive(processes[n])
          /\ processes' = [processes EXCEPT ![n] = Wait(processes[n], processes[n].status[1])]
          /\ return_code' = OrZero(processes'[n].returncode)
    /\ pc' = "exit"
    /\ UNCHANGED <<stdout, stderr, input, args, call, exc, retval>>

\* The ExitStack unwinds: Popen.__exit__ of every process closes its handles
\* and waits for it
UnwindAll ==
    /\ pc = "exit"
    /\ \A i \in 1..Len(processes) : ~Alive(processes[i])
    /\ processes' = [i \in 1..Len(processes) |->
                        PopenExit(processes[i], exc, processes[i].status)]
    /\ stdout' = StripNewline(stdout)
    /\ retval' = ResultOf(call.op, return_code, stdout', stderr)
    /\ pc' = "idle"
    /\ UNCHANGED <<return_code, stderr, input, args, call, exc>>

\* Stage i reads a unit from its stdin
StageRead(i) ==
    /\ i \in 1..Len(processes)
    /\ Alive(processes[i])
    /\ StdinUnits(processes, i) > 0
    /\ processes[i].echo => processes[i].wout = 0
    /\ processes' = [TakeStdin(processes, i) EXCEPT
                        ![i].wout = IF processes[i].echo THEN 1 ELSE @]
    /\ UNCHANGED <<return_code, stdout, stderr, input, args, pc, call, exc, retval>>

\* Stage i writes a unit to its stdout: into the pipe if it has room, or to
\* the stream it inherited
StageWriteOut(i) ==
    /\ i \in 1..Len(processes)
    /\ Alive(processes[i])
    /\ processes[i].wout > 0
    /\ IF processes[i].stdout # "none"
       THEN /\ processes[i].outq < PipeCap
            /\ processes' = [processes EXCEPT ![i].wout = @ - 1, ![i].outq = @ + 1]
       ELSE processes' = [processes EXCEPT ![i].wout = @ - 1]
    /\ UNCHANGED <<return_code, stdout, stderr, input, args, pc, call, exc, retval>>

\* Stage i writes a unit to its stderr: into its pipe, into the stdout pipe
\* when stderr is merged, or to the stream it inherited
StageWriteErr(i) ==
    /\ i \in 1..Len(processes)
    /\ Alive(processes[i])
    /\ processes[i].werr > 0
    /\ IF processes[i].stderr # "none"
       THEN /\ processes[i].errq < PipeCap
            /\ processes' = [processes EXCEPT ![i].werr = @ - 1, ![i].errq = @ + 1]
       ELSE IF processes[i].merged /\ processes[i].stdout # "none"
            THEN /\ processes[i].outq < PipeCap
                 /\ processes' = [processes EXCEPT ![i].werr = @ - 1, ![i].outq = @ + 1]
            ELSE processes' = [processes EXCEPT ![i].werr = @ - 1]
    /\ UNCHANGED <<return_code, stdout, stderr, input, args, pc, call, exc, retval>>

\* Stage i exits: its stdin is at end-of-input and its writes were accepted
StageExit(i, status) ==
    /\ i \in 1..Len(processes)
    /\ Alive(processes[i])
    /\ StdinAtEOF(processes, i)
    /\ processes[i].wout = 0
    /\ processes[i].werr = 0
    /\ processes' = [processes EXCEPT ![i].status = Some(status)]
    /\ UNCHANGED <<return_code, stdout, stderr, input, args, pc, call, exc, retval>>

\* The steps of the executor
ParentStep ==
    \/ \E b \in Behaviours : SpawnChild(b)
    \/ WriteUnit
    \/ CloseStdin
    \/ ReadUnit
    \/ ReadEOF
    \/ WaitLast
    \/ UnwindAll

\* The steps of the child spawned for stage i
StageStep(i) ==
    \/ StageRead(i)
    \/ StageWriteOut(i)
    \/ StageWriteErr(i)
    \/ \E status \in Statuses : StageExit(i, status)

PipeNext == ParentStep \/ \E i \in 1..MaxStages : StageStep(i)

\* The OS runs every process that can run: the executor and each child take
\* a step they can take.
PipeSpec ==
    /\ PipeInit
    /\ [][PipeNext]_vars
    /\ WF_vars(ParentStep)
    /\ \A i \in 1..MaxStages : WF_vars(StageStep(i))

----------------------------------------------------------------------------
\* Vocabulary of the properties

\* The operations that run execute()
ExecOps == Accessors \cup {"execute", "run"}

\* The latest call has returned to its caller / has raised
Returned == pc = "idle" /\ exc = "none"
Raised == pc = "idle" /\ exc # "none"

\* The latest call entered _inject with at least one pending stage
RanStages == call.op \in ExecOps \cup {"inject"} /\ (processes # <<>> \/ exc = "SpawnError")

NoOpenHandle(p) == p.stdin # "open" /\ p.stdout # "open" /\ p.stderr # "open"

LastProcess == processes[Len(processes)]

\* The exceptions of the streaming phase
StreamingFaults == WriteFaults \cup ReadFaults \cup BlockFaults

----------------------------------------------------------------------------
\* C1 (as claimed): whenever execute() or an inject scope has returned or
\* raised, every process spawned in that run has been waited on or killed and
\* none of the stream handles the executor kept is still open.
C1_TornDownOnExit ==
    pc = "idle" =>
        \A i \in 1..Len(processes) :
            (processes[i].waited \/ processes[i].killed) /\ NoOpenHandle(processes[i])

\* C2 (as claimed): after a spawn failure every stage spawned before it has
\* been killed, its handles are closed, and the error reached the caller.
C2_SpawnFailureKills ==
    (pc = "idle" /\ exc = "SpawnError") =>
        \A i \in 1..Len(processes) : processes[i].killed /\ NoOpenHandle(processes[i])

\* C3 (as claimed): after every execute() that found a pending stage, the
\* pending list is empty, whether the call returned or raised.
C3_PendingClearedAfterExecute ==
    (pc = "idle" /\ call.op \in ExecOps /\ RanStages) => args = <<>>

\* C4 (as claimed): after an exception of the streaming phase every process
\* of the pipeline has been killed and its handles are closed.
C4_StreamingFaultKills ==
    (pc = "idle" /\ exc \in StreamingFaults) =>
        \A i \in 1..Len(processes) : processes[i].killed /\ NoOpenHandle(processes[i])

\* C5 (as claimed): after a run that completes the stored exit code is the
\* last stage's status, with a negative status reported as 0.
C5_NegativeStatusIsZero ==
    (Returned /\ RanStages) =>
        return_code = IF LastProcess.returncode[1] < 0 THEN 0 ELSE LastProcess.returncode[1]

\* C5 (amended): after a run that completes the stored exit code is the last
\* stage's status, whatever the earlier stages' statuses, a negative status
\* included.
C5_ExitCodeIsLastStatus ==
    (Returned /\ RanStages) =>
        /\ LastProcess.returncode # None
        /\ return_code = LastProcess.returncode[1]

\* C5 witness: a two-stage run completed, the first stage failed with 1, the
\* last died of a signal, and the exit code is the signal's status.
C5_Witness ==
    /\ Returned /\ RanStages
    /\ Len(processes) = 2
    /\ processes[1].returncode = Some(1)
    /\ processes[2].returncode = Some(-9)
    /\ return_code = -9

\* C6: a run into which no spawn or streaming fault falls never raises, with
\* whatever statuses its stages exit: the only exceptions are the faults, the
\* last status is recorded as the exit code, and bool is true exactly when
\* the recorded exit code is 0.
C6_FailureIsAValue ==
    pc = "idle" =>
        /\ exc \in {"none", "AssertionError", "SpawnError"} \cup StreamingFaults
        /\ (exc = "none" /\ RanStages) => return_code = OrZero(LastProcess.returncode)
        /\ (exc = "none" /\ call.op \in Accessors)
              => (retval # NoValue /\ (retval[1].bool <=> (return_code = 0)))

\* C6 witness: bool was read over a two-stage pipeline whose stages both
\* exited non-zero; the call returned and the flag is false.
C6_Witness ==
    /\ Returned /\ RanStages
    /\ call.op \in Accessors
    /\ Len(processes) = 2
    /\ processes[1].returncode = Some(1)
    /\ processes[2].returncode = Some(-9)
    /\ retval[1].bool = FALSE

\* C7: execute() or an accessor called with no pending stage, or called right
\* after an execute() or accessor that returned, spawns nothing, leaves exit
\* code, stdout and stderr as they were and returns the value they hold.
C7_NoPendingIsNoOp ==
    [][(/\ pc = "idle"
        /\ call'.op \in Accessors \cup {"execute"}
        /\ \/ args = <<>>
           \/ call.op \in Accessors \cup {"execute"} /\ exc = "none")
       => (/\ pc' = "idle"
           /\ exc' = "none"
           /\ processes' = <<>>
           /\ UNCHANGED <<return_code, stdout, stderr, args>>
           /\ retval' = ResultOf(call'.op, return_code, stdout, stderr))]_vars

\* C7 witness: stdout was read with nothing pending after an earlier run had
\* captured text: no process was spawned and the stored text was returned.
C7_Witness ==
    /\ Returned
    /\ call.op \in Accessors
    /\ processes = <<>>
    /\ stdout # None
    /\ retval # NoValue
    /\ retval[1].stdout = stdout

\* C8: input(data) with a stage pending raises and leaves the pending list
\* and the pending input as they were; with no stage pending it stores data
\* in place of any earlier pending input.
C8_InputOnlyBeforeStages ==
    [][(pc = "idle" /\ call'.op = "input")
       => IF Len(args) > 0
          THEN exc' = "AssertionError" /\ UNCHANGED <<args, input>>
          ELSE exc' = "none" /\ input' = call'.data /\ input' # None /\ UNCHANGED args]_vars

\* C8 witness: input() was refused while a stage was pending.
C8_Witness ==
    /\ pc = "idle"
    /\ call.op = "input"
    /\ exc = "AssertionError"
    /\ Len(args) > 0

\* C9 (as claimed): adding a stage with stderr_as_stdin after a stage whose
\* stderr is merged into stdout raises and adds nothing.
C9_MergedStderrIsRefused ==
    [][(/\ pc = "idle"
        /\ call'.op = "pipe" /\ call'.stderr_as_stdin
        /\ Len(args) > 0 /\ args[Len(args)].stderr = "STDOUT")
       => (exc' # "none" /\ args' = args)]_vars

\* C9 (amended): adding a stage with stderr_as_stdin never raises; after a
\* stage whose stderr is merged into stdout the new stage reads the previous
\* stdout and the previous stage is left as it was, and after a stage whose
\* stderr is unset or a pipe it reads the previous stderr, which is made a pipe.
C9_MergedStderrReadsStdout ==
    [][(/\ pc = "idle"
        /\ call'.op = "pipe" /\ call'.stderr_as_stdin
        /\ Len(args) > 0)
       => (/\ exc' = "none"
           /\ Len(args') = Len(args) + 1
           /\ \A i \in 1..(Len(args) - 1) : args'[i] = args[i]
           /\ IF args[Len(args)].stderr = "STDOUT"
              THEN /\ args'[Len(args')].stdin = "STDOUT"
                   /\ args'[Len(args)] = args[Len(args)]
              ELSE /\ args'[Len(args')].stdin = "STDERR"
                   /\ args'[Len(args)] = [args[Len(args)] EXCEPT !.stderr = "PIPE"])]_vars

\* C9 witness: a stage asking for the previous stderr was added after a stage
\* that merges stderr into stdout, and reads the previous stdout.
C9_Witness ==
    /\ pc = "idle"
    /\ call.op = "pipe" /\ call.stderr_as_stdin
    /\ Len(args) = 2
    /\ args[1].stderr = "STDOUT"
    /\ args[2].stdin = "STDOUT"

\* C10 (as claimed): in every state of the pending list only the first stage
\* reads the external input, the first stage never reads a previous stream,
\* and a later stage reading the previous stdout (stderr) follows a stage
\* whose stdout (stderr) is a pipe.
C10_RoutingInvariant ==
    \A i \in 1..Len(args) :
        /\ args[i].stdin = "PIPE" => i = 1
        /\ i = 1 => args[i].stdin \notin {"STDOUT", "STDERR"}
        /\ (i > 1 /\ args[i].stdin = "STDOUT") => args[i - 1].stdout = "PIPE"
        /\ (i > 1 /\ args[i].stdin = "STDERR") => args[i - 1].stderr = "PIPE"

\* C11 (as claimed): the stored stdout changes only where a run captures the
\* last stage's stdout and where that run, returning, takes one trailing
\* newline off the text it captured; a run that captured no stdout leaves the
\* stored text as it was, so no text loses more than one newline.
C11_OneNewlineRemoved ==
    [][IF pc = "drain" /\ LastProcess.stdout # "none"
       THEN TRUE
       ELSE IF pc = "exit" /\ exc = "none" /\ LastProcess.stdout # "none"
            THEN stdout' = StripNewline(stdout)
            ELSE stdout' = stdout]_vars

\* C12 (as claimed): after every run that completed, at most one of stdout
\* and stderr holds a text, and it is the stream captured on the last stage of
\* that run: stdout only if the last stage's stdout was a pipe, stderr only
\* if its stdout was not a pipe and its stderr was, and neither if the last
\* stage captured nothing.
C12_OnlyCapturedStreamPopulated ==
    (Returned /\ RanStages) =>
        /\ ~(stdout # None /\ stderr # None)
        /\ LastProcess.stdout = "none" => stdout = None
        /\ (LastProcess.stdout # "none" \/ LastProcess.stderr = "none") => stderr = None

\* C17 (as claimed): whenever pipe() or run() adds a stage without asking
\* for the previous stderr while a stage is pending, the new stage's stdin
\* resolves to the previous stage's stdout, whatever left the pending list
\* as it is.
C17_DefaultIsPreviousStdout ==
    [][(/\ pc = "idle"
        /\ call'.op \in {"pipe", "run"} /\ ~call'.stderr_as_stdin
        /\ Len(args) > 0)
       => (/\ Len(args') = Len(args) + 1
           /\ args'[Len(args')].stdin = "STDOUT")]_vars

\* The places of the builder that hold an input() payload: the pending
\* buffer and the pending stages that carry one.
PayloadHolders ==
    (IF input # None THEN 1 ELSE 0)
    + Cardinality({i \in 1..Len(args) : args[i].input # None})

\* C18: a stage added as the first one while a payload is pending reads the
\* external input and carries the payload; any other stage added carries
\* none and does not read the external input; after any stage is added the
\* pending buffer is empty.  A payload is written only to the first process
\* and only from a first stage that reads the external input, the pending
\* list is empty once it is written, and at no time does the builder hold a
\* payload in more than one place.
C18_InputConsumedByFirstStage ==
    [][/\ (pc = "idle" /\ call'.op \in {"pipe", "run"})
          => /\ Len(args') = Len(args) + 1
             /\ input' = None
             /\ IF args = <<>> /\ input # None
                THEN args'[1].stdin = "PIPE" /\ args'[1].input = input
                ELSE args'[Len(args')].stdin # "PIPE" /\ args'[Len(args')].input = None
       /\ (pc = "write" /\ pc' = "yield")
          => /\ args' = <<>>
             /\ \A i \in 1..Len(processes') :
                   processes'[i].got # None
                      => /\ i = 1
                         /\ args[1].stdin = "PIPE"
                         /\ processes'[1].got = args[1].input
       /\ (pc # "write")
          => \A i \in 1..Len(processes') :
                processes'[i].got # None => (i <= Len(processes) /\ processes[i].got = processes'[i].got)
       /\ PayloadHolders' <= 1]_vars

\* C18 witness: a payload was pending when the first stage was added; the
\* stage reads the external input and carries the payload, and the pending
\* buffer is empty.
C18_Witness ==
    /\ pc = "idle"
    /\ call.op = "pipe"
    /\ Len(args) = 1
    /\ args[1].stdin = "PIPE"
    /\ args[1].input = Some("d1")
    /\ input = None

\* C15 (as claimed): every spawn starts the stage that follows the stages
\* already spawned and leaves the earlier processes as they are; and when the
\* stage spawned is resolved to read the previous stage's stdout (stderr),
\* the previous stage has been spawned and holds a pipe on that stream, which
\* the new process is given as its stdin.
C15_SpawnedInOrderOnExistingPipe ==
    [][(pc = "spawn" /\ processes' # processes)
       => LET i == Len(processes) + 1
          IN /\ Len(processes') = i
             /\ i <= Len(args)
             /\ \A j \in 1..Len(processes) : processes'[j] = processes[j]
             /\ args[i].stdin = "STDOUT"
                   => (i > 1 /\ processes[i - 1].stdout = "open"
                             /\ processes'[i].source = "prev_stdout")
             /\ args[i].stdin = "STDERR"
                   => (i > 1 /\ processes[i - 1].stderr = "open"
                             /\ processes'[i].source = "prev_stderr")]_vars

\* Where a run of execute() stands, read off the processes of the call: while
\* stages are still to be spawned or the input is still to be written,
\* nothing was written, closed or waited on; once the input step is done,
\* every stage is spawned, a first stage fed from input() has got its
\* payload and its stdin is closed, no later stage has got anything, and
\* until the read nothing was read or waited on; once the read is done the
\* captured stream is closed and the last process waited on; and when the
\* call has returned every process has been waited on.
RunOrder ==
    LET n == Len(processes)
    IN (call.op \in ExecOps /\ n > 0) =>
        /\ pc = "spawn" => n < Len(args)
        /\ pc = "write" => n = Len(args)
        /\ pc \in {"spawn", "write"}
              => \A i \in 1..n : /\ processes[i].got = None
                                 /\ ~processes[i].waited
                                 /\ processes[i].stdin # "closed"
                                 /\ processes[i].stdout # "closed"
                                 /\ processes[i].stderr # "closed"
        /\ pc \in {"yield", "drain"} \/ (pc \in {"exit", "idle"} /\ exc = "none")
              => /\ args = <<>>
                 /\ processes[1].source = "PIPE"
                       => (processes[1].got # None /\ processes[1].stdin = "closed")
                 /\ \A i \in 2..n : processes[i].got = None
        /\ pc \in {"yield", "drain"}
              => \A i \in 1..n : /\ ~processes[i].waited
                                 /\ processes[i].stdout # "closed"
                                 /\ processes[i].stderr # "closed"
        /\ (pc = "exit" /\ exc = "none")
              => /\ processes[n].stdout # "open"
                 /\ processes[n].waited
                 /\ \A i \in 1..(n - 1) : ~processes[i].waited
        /\ (pc = "idle" /\ exc = "none")
              => \A i \in 1..n : processes[i].waited

\* C16: in a run of execute() the stages are all spawned before the input is
\* written; the input step writes the whole payload of the first stage to
\* the first process and closes its stdin; the captured stream of the last
\* stage is read only after that, the processes are waited on only after the
\* read, and no process but the first is written to.
C16_SpawnWriteCloseReadWait ==
    [][/\ (call.op \in ExecOps /\ pc = "write" /\ pc' = "yield" /\ processes[1].stdin = "open")
          => /\ args[1].input # None
             /\ processes'[1].got = args[1].input
             /\ processes'[1].stdin = "closed"
       /\ (call.op \in ExecOps /\ pc = "drain" /\ pc' = "exit" /\ exc' = "none")
          => /\ processes[1].stdin # "open"
             /\ (LastProcess.stdout = "open" => stdout' # None)
       /\ RunOrder']_vars

\* C16 witness: a two-stage pipeline fed from input() was run to the end by
\* an accessor: the first process got the payload and its stdin is closed,
\* the last stage's stdout was read and closed, both processes were waited on.
C16_Witness ==
    /\ Returned /\ RanStages
    /\ call.op \in Accessors
    /\ Len(processes) = 2
    /\ processes[1].got = Some("d1")
    /\ processes[1].stdin = "closed"
    /\ processes[2].got = None
    /\ processes[2].stdout = "closed"
    /\ processes[1].waited /\ processes[2].waited
    /\ stdout = Some(<<"x">>)

C13_NeverStuck == pc # "idle" => ENABLED PipeNext

====
